---------------------------- MODULE Spec2Model ----------------------------
(***************************************************************************)
(* A model of cmdict's German word lookup: spelling check (check.py),     *)
(* part-of-speech detection (german/pos.py), word, verb and noun models    *)
(* scraped from the web (german/spelling.py, german/verb.py,               *)
(* german/noun.py) and the search function (german/search.py).             *)
(*                                                                         *)
(* A Python str is a sequence of one-character strings, so that lower(),   *)
(* split(), replace() and slicing are computed character by character.     *)
(***************************************************************************)
EXTENDS Naturals, Sequences, FiniteSets, TLC

VARIABLES
    arg,        \* SpecCheck: the spelling handed to check_de
    res,        \* SpecCheck: {} before the call, {check_de(arg)} after it
    resLower,   \* SpecCheck: {} or {check_de(arg.lower())}
    resAgain,   \* SpecCheck: {} or {check_de(check_de(arg))}
    posWord,    \* SpecPos: the word of the last crawl_pos_de call
    posResp,    \* SpecPos: the response api.pons.com gave to it
    posRes,     \* SpecPos: {} before any call, else {its outcome}
    PRESENT,    \* Spec: the dict the module-level name _PRESENT is bound to
    verbs,      \* Spec: the Verb objects the session holds
    served,     \* Spec: for each of them, the conjugation items it was built from
    nouns,      \* Spec: the Noun objects the session holds
    printed,    \* Spec: for each verb, {} or {its first printout}
    call,       \* Spec: the last call of the session and its outcome
    wordCall,   \* SpecWord: the last Word(spelling) call, its page and outcome
    artDef,     \* SpecArticle: the dict ARTICLES_DEF as far as it is built
    artIndef,   \* SpecArticle: the dict ARTICLES_INDEF as far as it is built
    artCall     \* SpecArticle: the last step of the import, or the last lookup

checkVars == <<arg, res, resLower, resAgain>>
posVars == <<posWord, posResp, posRes>>
mainVars == <<PRESENT, verbs, served, nouns, printed, call>>
wordVars == <<wordCall>>
articleVars == <<artDef, artIndef, artCall>>
vars == <<checkVars, posVars, mainVars, wordVars, articleVars>>

---------------------------------------------------------------------------
(* Bounds of the model.                                                    *)

\* Longest raw spelling handed to check_de in SpecCheck.
MaxLen == 3

\* Most Verb objects and most Noun objects a session holds.
MaxVerbs == 1
MaxNouns == 2

---------------------------------------------------------------------------
(* Python str helpers.                                                     *)

\* The characters raw spellings are drawn from in SpecCheck.
Alphabet == {"d", "a", "n", "k", "t", "D"}

\* str.lower() on one character, for the letters of the model's words.
LowerChar(c) ==
    CASE c = "A" -> "a" [] c = "D" -> "d" [] c = "E" -> "e" [] c = "G" -> "g"
      [] c = "H" -> "h" [] c = "I" -> "i" [] c = "K" -> "k" [] c = "N" -> "n"
      [] c = "R" -> "r" [] c = "S" -> "s" [] c = "T" -> "t" [] c = "U" -> "u"
      [] OTHER -> c

\* str.upper() on one character, for the letters of the model's words.
UpperChar(c) ==
    CASE c = "a" -> "A" [] c = "d" -> "D" [] c = "e" -> "E" [] c = "g" -> "G"
      [] c = "h" -> "H" [] c = "i" -> "I" [] c = "k" -> "K" [] c = "n" -> "N"
      [] c = "r" -> "R" [] c = "s" -> "S" [] c = "t" -> "T" [] c = "u" -> "U"
      [] OTHER -> c

\* str.lower()
Lower(s) == [i \in 1..Len(s) |-> LowerChar(s[i])]

\* s[i:] of Python, i counted from 0; a slice past the end is empty.
From(s, i) == IF i >= Len(s) THEN <<>> ELSE SubSeq(s, i + 1, Len(s))

\* s[:i] of Python, i counted from 0; a slice stops at the end.
Upto(s, i) == IF i >= Len(s) THEN s ELSE SubSeq(s, 1, i)

\* All strings over Alphabet of length at most n.
StringsUpTo(n) == UNION {[1..k -> Alphabet] : k \in 0..n}

---------------------------------------------------------------------------
(* check.py: _CHECKER = SpellChecker(language="de") and check_de.          *)

w_dank == <<"d", "a", "n", "k">>
w_danke == <<"d", "a", "n", "k", "e">>
w_dann == <<"d", "a", "n", "n">>
w_an == <<"a", "n">>
w_tat == <<"t", "a", "t">>
w_kind == <<"k", "i", "n", "d">>
w_gehen == <<"g", "e", "h", "e", "n">>
w_sehen == <<"s", "e", "h", "e", "n">>
w_gut == <<"g", "u", "t">>

\* The word frequency table of the German dictionary (a fragment of it):
\* keys are lower case, as SpellChecker loads them when not case sensitive.
WordFrequency ==
    (w_dank :> 5) @@ (w_danke :> 4) @@ (w_dann :> 9) @@ (w_an :> 8)
    @@ (w_tat :> 3) @@ (w_kind :> 7) @@ (w_gehen :> 6) @@ (w_sehen :> 2)
    @@ (w_gut :> 1)

Dictionary == DOMAIN WordFrequency

\* WordFrequency.letters: every letter of every dictionary word.
Letters == UNION {{w[i] : i \in 1..Len(w)} : w \in Dictionary}

\* WordFrequency.longest_word_length
LongestWordLength ==
    CHOOSE n \in {Len(w) : w \in Dictionary} :
        \A w \in Dictionary : Len(w) <= n

\* SpellChecker._check_if_should_check: overly long words are not checked.
ShouldCheck(word) == Len(word) <= LongestWordLength + 3

\* SpellChecker.known: the words, lower-cased, that are in the dictionary.
Known(words) ==
    {Lower(w) : w \in words} \cap {d \in Dictionary : ShouldCheck(d)}

\* SpellChecker.edit_distance_1: deletes, transposes, replaces, inserts of
\* the lower-cased word.
EditDistance1(word) ==
    LET w == Lower(word)
        n == Len(w)
        deletes == {Upto(w, i) \o From(w, i + 1) : i \in 0..(n - 1)}
        transposes ==
            {Upto(w, i) \o <<w[i + 2], w[i + 1]>> \o From(w, i + 2) :
                i \in 0..(n - 2)}
        replaces ==
            {Upto(w, i) \o <<c>> \o From(w, i + 1) :
                i \in 0..(n - 1), c \in Letters}
        inserts ==
            {Upto(w, i) \o <<c>> \o From(w, i) : i \in 0..n, c \in Letters}
    IN  IF ~ShouldCheck(w) THEN {w}
        ELSE deletes \cup transposes \cup replaces \cup inserts

\* d in edit_distance_1(word), decided without building the set: d is the
\* lower-cased word with one character deleted, two adjacent characters
\* transposed, one character replaced by a letter or one letter inserted.
InEditDistance1(d, word) ==
    LET w == Lower(word)
        n == Len(w)
        m == Len(d)
    IN  IF ~ShouldCheck(w) THEN d = w
        ELSE \/ /\ m + 1 = n
                /\ \E i \in 0..(n - 1) : d = Upto(w, i) \o From(w, i + 1)
             \/ /\ m = n
                /\ \E i \in 0..(n - 2) :
                       d = Upto(w, i) \o <<w[i + 2], w[i + 1]>> \o From(w, i + 2)
             \/ /\ m = n
                /\ \E i \in 1..n :
                       /\ d[i] \in Letters
                       /\ \A j \in 1..n : j # i => d[j] = w[j]
             \/ /\ m = n + 1
                /\ \E i \in 1..m :
                       /\ d[i] \in Letters
                       /\ w = Upto(d, i - 1) \o From(d, i)

\* SpellChecker.candidates: the word itself when known, else the known
\* words at edit distance 1, else those at distance 2, else the word.
Candidates(word) ==
    IF Known({word}) # {} THEN {word}
    ELSE IF ~ShouldCheck(word) THEN {word}
    ELSE LET k1 == {d \in Dictionary :
                       ShouldCheck(d) /\ InEditDistance1(d, word)}
             e1 == EditDistance1(word)
             k2 == {d \in Dictionary :
                       ShouldCheck(d) /\ \E e \in e1 : InEditDistance1(d, e)}
         IN  IF k1 # {} THEN k1
             ELSE IF k2 # {} THEN k2
             ELSE {word}

\* SpellChecker.correction: the most frequent candidate.
Probability(word) ==
    IF word \in Dictionary THEN WordFrequency[word] ELSE 0

Correction(word) ==
    LET c == Candidates(word)
    IN  CHOOSE x \in c : \A y \in c : Probability(y) <= Probability(x)

\* str.upper()
Upper(s) == [i \in 1..Len(s) |-> UpperChar(s[i])]

\* check_de without the lower-casing of its first line.
check_de_keep_case(spelling) == Correction(spelling)

\* check_de normalising to upper case instead of lower case.
check_de_upper(spelling) == Correction(Upper(spelling))

\* check_de: lower-case the spelling, then correct it.
check_de(spelling) == Correction(Lower(spelling))

---------------------------------------------------------------------------
(* More Python str helpers.                                                *)

\* The first index (from 1) at which sep occurs in s, 0 if it does not.
Find(s, sep) ==
    LET hits == {i \in 1..(Len(s) + 1 - Len(sep)) :
                    SubSeq(s, i, i + Len(sep) - 1) = sep}
    IN  IF hits = {} THEN 0
        ELSE CHOOSE i \in hits : \A j \in hits : i <= j

\* s.split(sep) for a non-empty separator: a list of strings.
RECURSIVE Split(_, _)
Split(s, sep) ==
    LET i == Find(s, sep)
    IN  IF i = 0 THEN <<s>>
        ELSE <<SubSeq(s, 1, i - 1)>> \o Split(From(s, i - 1 + Len(sep)), sep)

\* x in list
InList(x, list) == \E i \in 1..Len(list) : list[i] = x

---------------------------------------------------------------------------
(* german/pos.py: PartOfSpeechDe and crawl_pos_de.                         *)

\* The values of the enumeration PartOfSpeechDe.
PartOfSpeechDe ==
    [Verb |-> <<"v", "e", "r", "b">>,
     Noun |-> <<"n", "o", "u", "n">>,
     Adv |-> <<"a", "d", "v", "e", "r", "b">>,
     Adj |-> <<"a", "d", "j", "e", "c", "t", "i", "v", "e">>]

\* JSON values, tagged with their type. NotJson is a body json() rejects.
JArr(items) == [t |-> "array", v |-> items]
JObj(fields) == [t |-> "object", v |-> fields]
JStr(str) == [t |-> "string", v |-> str]
JNull == [t |-> "null", v |-> <<>>]
NotJson == [t |-> "invalid", v |-> <<>>]

\* j[i] of Python for an index i: {} when it raises, else {the item}.
GetIndex(j, i) ==
    IF j.t \in {"array", "string"} /\ i < Len(j.v)
    THEN {IF j.t = "string" THEN JStr(<<j.v[i + 1]>>) ELSE j.v[i + 1]}
    ELSE {}

\* j[key] of Python for a str key: {} when it raises, else {the value}.
GetKey(j, key) ==
    IF j.t = "object" /\ key \in DOMAIN j.v THEN {j.v[key]} ELSE {}

\* crawled.json()[0]["hits"][0]["roms"][0]["wordclass"]
WordClassOf(body) ==
    LET json == IF body.t = "invalid" THEN {} ELSE {body}
        e0 == UNION {GetIndex(j, 0) : j \in json}
        hits == UNION {GetKey(j, "hits") : j \in e0}
        h0 == UNION {GetIndex(j, 0) : j \in hits}
        roms == UNION {GetKey(j, "roms") : j \in h0}
        r0 == UNION {GetIndex(j, 0) : j \in roms}
    IN  UNION {GetKey(j, "wordclass") : j \in r0}

\* An outcome of crawl_pos_de: an exception, or a returned value with the
\* severity of the message logged.
Raised == [raised |-> TRUE, pos |-> "None", log |-> "none"]
Returned(pos, log) == [raised |-> FALSE, pos |-> pos, log |-> log]

\* The branch of crawl_pos_de on a wordclass string, with Noun tried first.
pos_of_wordclass_noun_first(pos_raw) ==
    LET pos_raw_list == Split(pos_raw, <<" ">>)
    IN  IF InList(PartOfSpeechDe.Noun, pos_raw_list)
        THEN Returned("Noun", "none")
        ELSE IF InList(PartOfSpeechDe.Verb, pos_raw_list)
        THEN Returned("Verb", "none")
        ELSE Returned("None", "warning")

\* The branch of crawl_pos_de on a wordclass string.
pos_of_wordclass(pos_raw) ==
    LET pos_raw_list == Split(pos_raw, <<" ">>)
    IN  IF InList(PartOfSpeechDe.Verb, pos_raw_list)
        THEN Returned("Verb", "none")
        ELSE IF InList(PartOfSpeechDe.Noun, pos_raw_list)
        THEN Returned("Noun", "none")
        ELSE Returned("None", "warning")

\* crawl_pos_de on the response requests.get returned. The word only names
\* the URL and the log message.
crawl_pos_de(word, crawled) ==
    IF crawled.status_code = 200
    THEN LET wc == WordClassOf(crawled.body)
         IN  IF wc = {} THEN Raised
             ELSE LET pos_raw == CHOOSE j \in wc : TRUE
                  IN  IF pos_raw.t # "string" THEN Raised
                      ELSE pos_of_wordclass(pos_raw.v)
    ELSE Returned("None", "error")

\* The API's answers. A wordclass is a space-separated list of tags.
wc_verb == <<"v", "e", "r", "b">>
wc_noun == <<"n", "o", "u", "n">>
wc_transitive_verb == <<"t", "r", "a", "n", "s", "i", "t", "i", "v", "e", " ", "v", "e", "r", "b">>
wc_feminine_noun == <<"f", "e", "m", "i", "n", "i", "n", "e", " ", "n", "o", "u", "n">>
wc_adverb == <<"a", "d", "v", "e", "r", "b">>
wc_adjective == <<"a", "d", "j", "e", "c", "t", "i", "v", "e">>
wc_adjective_or_adverb == <<"a", "d", "j", "e", "c", "t", "i", "v", "e", " ", "o", "r", " ", "a", "d", "v", "e", "r", "b">>
wc_noun_verb == <<"n", "o", "u", "n", " ", "v", "e", "r", "b">>
wc_verb_noun == <<"v", "e", "r", "b", " ", "n", "o", "u", "n">>
wc_empty == <<>>

WordClasses ==
    {wc_verb, wc_noun, wc_transitive_verb, wc_feminine_noun, wc_adverb,
     wc_adjective, wc_adjective_or_adverb, wc_noun_verb, wc_verb_noun,
     wc_empty}

\* A body of the documented shape: [{"hits": [{"roms": [{"wordclass": wc}]}]}]
BodyOf(wordclass) ==
    JArr(<<JObj([hits |->
        JArr(<<JObj([roms |->
            JArr(<<JObj([wordclass |-> wordclass])>>)])>>)])>>)

\* Bodies of other shapes: not JSON, an empty array, an object, and arrays
\* whose first entry lacks or empties one level of the path.
MalformedBodies ==
    {NotJson,
     JArr(<<>>),
     JObj([message |-> JStr(<<>>)]),
     JArr(<<JObj([lang |-> JStr(<<>>)])>>),
     JArr(<<JObj([hits |-> JArr(<<>>)])>>),
     JArr(<<JObj([hits |-> JArr(<<JObj([type |-> JStr(<<>>)])>>)])>>),
     JArr(<<JObj([hits |-> JArr(<<JObj([roms |-> JArr(<<>>)])>>)])>>),
     JArr(<<JObj([hits |->
        JArr(<<JObj([roms |-> JArr(<<JObj([headword |-> JStr(<<>>)])>>)])>>)])>>),
     BodyOf(JNull)}

Bodies == {BodyOf(JStr(wc)) : wc \in WordClasses} \cup MalformedBodies

\* 200 OK, 204 no content (no entry for the word), 503 limit reached.
StatusCodes == {200, 204, 503}

Responses == [status_code : StatusCodes, body : Bodies]

\* The words crawl_pos_de is called with in SpecPos.
PosWords == {w_kind, w_gehen, w_gut}

---------------------------------------------------------------------------
(* utils.py                                                                *)

\* The concatenation of a list of strings.
RECURSIVE Concat(_)
Concat(list) == IF list = <<>> THEN <<>> ELSE Head(list) \o Concat(Tail(list))

\* remove_newline: split at "\n" and join the pieces.
remove_newline(s) == Concat(Split(s, <<"\n">>))

\* remove_cdot: s.replace("·", "")
remove_cdot(s) == SelectSeq(s, LAMBDA c : c # "·")

---------------------------------------------------------------------------
(* Python dict: a list of (key, value) entries in insertion order.         *)

DictKeys(d) == [i \in 1..Len(d) |-> d[i].key]

HasKey(d, k) == \E i \in 1..Len(d) : d[i].key = k

\* d[k]; the key is present.
DictGet(d, k) == d[CHOOSE i \in 1..Len(d) : d[i].key = k].value

\* d[k] = v: the value of an existing key is replaced in place, a new key
\* is appended.
DictSet(d, k, v) ==
    IF HasKey(d, k)
    THEN [i \in 1..Len(d) |-> IF d[i].key = k THEN [key |-> k, value |-> v]
                              ELSE d[i]]
    ELSE Append(d, [key |-> k, value |-> v])

---------------------------------------------------------------------------
(* german/spelling.py: Word, built from a scraped Wiktionary page.         *)
(*                                                                         *)
(* A page is [ipa, worttrennung, table]: the text of the span of class ipa *)
(* ({} when there is none), the text of the element that follows the       *)
(* paragraph titled "Trennungsmöglichkeiten am Zeilenumbruch" ({} when     *)
(* there is no such paragraph) and the inflection table ({} when none).    *)

\* Word._assign_ipa formatting the text of the span without looking whether
\* there is a span: "[]" and no log when there is none.
_assign_ipa_brackets(spelling, soup) ==
    [ipa |-> <<"[">> \o (IF soup.ipa = {} THEN <<>>
                         ELSE CHOOSE x \in soup.ipa : TRUE) \o <<"]">>,
     logged |-> {}]

\* Word._assign_ipa: the bracketed IPA; a missing span is logged, ipa
\* stays "".
_assign_ipa(spelling, soup) ==
    IF soup.ipa = {}
    THEN [ipa |-> <<>>, logged |-> {"critical"}]
    ELSE [ipa |-> <<"[">> \o (CHOOSE x \in soup.ipa : TRUE) \o <<"]">>,
          logged |-> {}]

\* Word._assign_syllabification treating a missing marker paragraph as
\* Word._assign_ipa treats a missing span: logged, the field left empty.
_assign_syllabification_caught(spelling, soup) ==
    IF soup.worttrennung = {}
    THEN {[syllabification |-> <<>>, logged |-> {"critical"}]}
    ELSE LET text == CHOOSE x \in soup.worttrennung : TRUE
             raw == Split(text, <<",">>)[1]
         IN  {[syllabification |-> raw,
               logged |-> IF remove_cdot(raw) # spelling THEN {"warning"}
                          ELSE {}]}

\* Word._assign_syllabification comparing the raw text, centre dots
\* included, with the spelling.
_assign_syllabification_keep_cdot(spelling, soup) ==
    IF soup.worttrennung = {} THEN {}
    ELSE LET text == CHOOSE x \in soup.worttrennung : TRUE
             raw == Split(text, <<",">>)[1]
         IN  {[syllabification |-> raw,
               logged |-> IF raw # spelling THEN {"warning"} ELSE {}]}

\* Word._assign_syllabification: {} when the marker paragraph is missing
\* (AttributeError), else the text before the first comma, with a warning
\* when it is not the spelling once the centre dots are removed.
_assign_syllabification(spelling, soup) ==
    IF soup.worttrennung = {} THEN {}
    ELSE LET text == CHOOSE x \in soup.worttrennung : TRUE
             raw == Split(text, <<",">>)[1]
         IN  {[syllabification |-> raw,
               logged |-> IF remove_cdot(raw) # spelling THEN {"warning"}
                          ELSE {}]}

\* Word.__init__ on the page crawl_wiktionary returned: {} when it raises,
\* else {the word}. logged holds the severities logged on the way.
Word(spelling, soup) ==
    LET i == _assign_ipa(spelling, soup)
    IN  {[spelling |-> spelling,
          ipa |-> i.ipa,
          syllabification |-> s.syllabification,
          logged |-> i.logged \cup s.logged] :
            s \in _assign_syllabification(spelling, soup)}

---------------------------------------------------------------------------
(* The web: what de.wiktionary.org and conjugator.reverso.net may serve.   *)

\* The text after the syllabification marker on the page of a word.
WorttrennungOf(word) ==
    CASE word = <<"g", "e", "h", "e", "n">> -> <<"g", "e", "·", "h", "e", "n", ",", " ", "P", "a", "r", "t", "i", "z", "i", "p", " ", "I", "I", ":", " ", "g", "e", "·", "g", "a", "n", "·", "g", "e", "n">>
      [] word = <<"g", "e", "h", "e">> -> <<"g", "e", "·", "h", "e">>
      [] word = <<"s", "e", "h", "e", "n">> -> <<"s", "e", "·", "h", "e", "n", ",", " ", "P", "a", "r", "t", "i", "z", "i", "p", " ", "I", "I", ":", " ", "g", "e", "·", "s", "e", "·", "h", "e", "n">>
      [] word = <<"s", "e", "h", "e">> -> <<"s", "e", "·", "h", "e">>
      [] word = <<"K", "i", "n", "d">> -> <<"K", "i", "n", "d", ",", " ", "P", "l", "u", "r", "a", "l", ":", " ", "K", "i", "n", "·", "d", "e", "r">>
      [] word = <<"K", "i", "n", "d", "e", "r">> -> <<"K", "i", "n", "·", "d", "e", "r">>
      [] word = <<"K", "i", "n", "d", "e", "s">> -> <<"K", "i", "n", "·", "d", "e", "s">>
      [] word = <<"K", "i", "n", "d", "e">> -> <<"K", "i", "n", "·", "d", "e">>
      [] word = <<"K", "i", "n", "d", "e", "r", "n">> -> <<"K", "i", "n", "·", "d", "e", "r", "n">>
      [] OTHER -> word

\* The text of the IPA span on the page of a word (a stand-in for the
\* transcription: the stress mark and the word in lower case).
IpaOf(word) == <<"'">> \o Lower(word)

\* The usual page of a word, without an inflection table.
PageOf(word) ==
    [ipa |-> {IpaOf(word)}, worttrennung |-> {WorttrennungOf(word)},
     table |-> {}]

\* The page without its IPA span.
WithoutIpa(page) == [page EXCEPT !.ipa = {}]

\* The page without its syllabification paragraph.
WithoutWorttrennung(page) == [page EXCEPT !.worttrennung = {}]

\* The page whose syllabification list is there and holds no text.
WithEmptyWorttrennung(page) == [page EXCEPT !.worttrennung = {<<>>}]

\* The inflection table of "Kind": a list of rows, each the list of its td
\* cells, a cell being its text and the number of tags inside it. The first
\* row is the header, which has th cells only.
KindTable ==
    <<<<>>,
      <<[text |-> <<"d", "a", "s", " ", "K", "i", "n", "d", "\n">>, tags |-> 1],
        [text |-> <<"d", "i", "e", " ", "K", "i", "n", "d", "e", "r", "\n">>, tags |-> 1]>>,
      <<[text |-> <<"d", "e", "s", " ", "K", "i", "n", "d", "e", "s", "\n", "d", "e", "s", " ", "K", "i", "n", "d", "s", "\n">>, tags |-> 3],
        [text |-> <<"d", "e", "r", " ", "K", "i", "n", "d", "e", "r", "\n">>, tags |-> 1]>>,
      <<[text |-> <<"d", "e", "m", " ", "K", "i", "n", "d", "\n", "d", "e", "m", " ", "K", "i", "n", "d", "e", "\n">>, tags |-> 3],
        [text |-> <<"d", "e", "n", " ", "K", "i", "n", "d", "e", "r", "n", "\n">>, tags |-> 1]>>,
      <<[text |-> <<"d", "a", "s", " ", "K", "i", "n", "d", "\n">>, tags |-> 1],
        [text |-> <<"d", "i", "e", " ", "K", "i", "n", "d", "e", "r", "\n">>, tags |-> 1]>>>>

\* The inflection table of the masculine noun "Fußball".
FussballTable ==
    <<<<>>,
      <<[text |-> <<"d", "e", "r", " ", "F", "u", "ß", "b", "a", "l", "l", "\n">>, tags |-> 1],
        [text |-> <<"d", "i", "e", " ", "F", "u", "ß", "b", "ä", "l", "l", "e", "\n">>, tags |-> 1]>>,
      <<[text |-> <<"d", "e", "s", " ", "F", "u", "ß", "b", "a", "l", "l", "s", "\n", "d", "e", "s", " ", "F", "u", "ß", "b", "a", "l", "l", "e", "s", "\n">>, tags |-> 3],
        [text |-> <<"d", "e", "r", " ", "F", "u", "ß", "b", "ä", "l", "l", "e", "\n">>, tags |-> 1]>>,
      <<[text |-> <<"d", "e", "m", " ", "F", "u", "ß", "b", "a", "l", "l", "\n", "d", "e", "m", " ", "F", "u", "ß", "b", "a", "l", "l", "e", "\n">>, tags |-> 3],
        [text |-> <<"d", "e", "n", " ", "F", "u", "ß", "b", "ä", "l", "l", "e", "n", "\n">>, tags |-> 1]>>,
      <<[text |-> <<"d", "e", "n", " ", "F", "u", "ß", "b", "a", "l", "l", "\n">>, tags |-> 1],
        [text |-> <<"d", "i", "e", " ", "F", "u", "ß", "b", "ä", "l", "l", "e", "\n">>, tags |-> 1]>>>>

\* Other tables a page may hold: one without the accusative row, one whose
\* genitive row has a single cell, one with a third column, one whose
\* genitive cell holds three spellings, one whose genitive cell has two tags
\* and one spelling, and one whose first cell starts with a space.
TableWithoutLastRow == SubSeq(KindTable, 1, 4)

TableWithOneCellRow ==
    [KindTable EXCEPT ![3] = SubSeq(KindTable[3], 1, 1)]

TableWithThirdColumn ==
    [r \in 1..Len(KindTable) |->
        IF r = 1 THEN KindTable[r]
        ELSE Append(KindTable[r], [text |-> <<"d", "i", "e", " ", "K", "i", "n", "d", "e", "r", "\n">>, tags |-> 1])]

TableWithThreeSpellings ==
    [KindTable EXCEPT ![3][1] =
        [text |-> <<"d", "e", "s", " ", "K", "i", "n", "d", "e", "s", "\n", "d", "e", "s", " ", "K", "i", "n", "d", "s", "\n", "d", "e", "s", " ", "K", "i", "n", "d", "\n">>, tags |-> 5]]

TableWithTagsOnly ==
    [KindTable EXCEPT ![3][1] = [text |-> <<"d", "e", "s", " ", "K", "i", "n", "d", "e", "s", "\n">>, tags |-> 2]]

TableWithLeadingSpace ==
    [KindTable EXCEPT ![2][1] = [text |-> <<" ", "K", "i", "n", "d", "\n">>, tags |-> 1]]

KindTables ==
    {KindTable, TableWithoutLastRow, TableWithOneCellRow,
     TableWithThirdColumn, TableWithThreeSpellings, TableWithTagsOnly,
     TableWithLeadingSpace}

\* The pages de.wiktionary.org may serve for a word, one per request. The
\* empty word is the address of the main page, which is not an entry.
Wiktionary(word) ==
    CASE word = <<>> -> {WithoutWorttrennung(WithoutIpa(PageOf(word)))}
      [] word = <<"s", "e", "h", "t">> -> {PageOf(word), WithoutWorttrennung(PageOf(word))}
      [] word = <<"s", "e", "h", "e", "n">> -> {PageOf(word), WithoutWorttrennung(PageOf(word))}
      [] word = <<"g", "e", "h", "s", "t">> -> {PageOf(word), WithEmptyWorttrennung(PageOf(word))}
      [] word = <<"K", "i", "n", "d", "e">> -> {PageOf(word), WithoutWorttrennung(PageOf(word))}
      [] word = <<"d", "a", "s">> -> {PageOf(word), WithoutIpa(PageOf(word))}
      [] word = <<"e", "i", "n", "e", "r">> -> {PageOf(word), WithoutWorttrennung(PageOf(word))}
      [] word = <<"K", "i", "n", "d">> ->
            {[PageOf(word) EXCEPT !.table = {t}] : t \in KindTables}
            \cup {PageOf(word)}
      [] word = <<"F", "u", "ß", "b", "a", "l", "l">> ->
            {[PageOf(word) EXCEPT !.table = {FussballTable}]}
      [] OTHER -> {PageOf(word)}

\* The list items of the present-tense box of a conjugation page.
ReversoItems(word) ==
    CASE word = <<"g", "e", "h", "e", "n">> ->
            <<<<"i", "c", "h", " ", "g", "e", "h", "e">>, <<"d", "u", " ", "g", "e", "h", "s", "t">>, <<"e", "r", "/", "s", "i", "e", "/", "e", "s", " ", "g", "e", "h", "t">>,
              <<"w", "i", "r", " ", "g", "e", "h", "e", "n">>, <<"i", "h", "r", " ", "g", "e", "h", "t">>, <<"S", "i", "e", " ", "g", "e", "h", "e", "n">>>>
      [] word = <<"s", "e", "h", "e", "n">> ->
            <<<<"i", "c", "h", " ", "s", "e", "h", "e">>, <<"d", "u", " ", "s", "i", "e", "h", "s", "t">>, <<"e", "r", "/", "s", "i", "e", "/", "e", "s", " ", "s", "i", "e", "h", "t">>,
              <<"w", "i", "r", " ", "s", "e", "h", "e", "n">>, <<"i", "h", "r", " ", "s", "e", "h", "t">>, <<"S", "i", "e", " ", "s", "e", "h", "e", "n">>>>
      [] OTHER -> <<>>

\* The conjugation pages the site may serve for a word: {} stands for a
\* page without the conjugation box, else {the texts of its list items}.
Reverso(word) ==
    CASE word = <<"g", "e", "h", "e", "n">> ->
            {{ReversoItems(word)}, {SubSeq(ReversoItems(word), 1, 5)}}
      [] word = <<"s", "e", "h", "e", "n">> -> {{ReversoItems(word)}}
      [] OTHER -> {{}}

---------------------------------------------------------------------------
(* german/verb.py: Verb and VerbConjugation.                               *)

\* _PRESENT as the module defines it: every pronoun mapped to None ({}).
_PRESENT ==
    <<[key |-> "ich", value |-> {}], [key |-> "du", value |-> {}],
      [key |-> "er", value |-> {}], [key |-> "wir", value |-> {}],
      [key |-> "ihr", value |-> {}], [key |-> "sie", value |-> {}]>>

_PRESENT_LIST == <<"ich", "du", "er", "wir", "ihr", "sie">>

_PRINT_PRESENT ==
    [ich |-> <<"i", "c", "h">>, du |-> <<"d", "u">>, er |-> <<"e", "r", "/", "s", "i", "e", "/", "e", "s">>,
     wir |-> <<"w", "i", "r">>, ihr |-> <<"i", "h", "r">>, sie |-> <<"S", "i", "e">>]

\* VerbConjugation.__init__: a Word with its pronoun and its origin.
VerbConjugation(which, spelling, origin, soup) ==
    {[which |-> which,
      origin |-> origin,
      spelling |-> w.spelling,
      ipa |-> w.ipa,
      syllabification |-> w.syllabification,
      logged |-> w.logged] : w \in Word(spelling, soup)}

\* VerbConjugation.info with the IPA before the syllabification.
info_ipa_first(self) ==
    <<_PRINT_PRESENT[self.which], self.ipa, self.syllabification>>

\* VerbConjugation.info
info(self) ==
    <<_PRINT_PRESENT[self.which], self.syllabification, self.ipa>>

\* VerbConjugation._info_adoc: "|{cell} " for each cell of info.
_info_adoc(self) ==
    LET cells == info(self)
    IN  Concat([i \in 1..Len(cells) |-> <<"|">> \o cells[i] \o <<" ">>])

\* A request to de.wiktionary.org made by Word.crawl_wiktionary: the word
\* asked for and what Word reads on the page served.
Fetched(word, soup) ==
    <<[word |-> word, ipa |-> soup.ipa, worttrennung |-> soup.worttrennung]>>

\* An outcome of Verb.crawl_present: whether it raised, _PRESENT as it left
\* it, and the requests it made to de.wiktionary.org, in order.
PresentOutcome(raised, present, fetched) ==
    [raised |-> raised, present |-> present, fetched |-> fetched]

\* The loop of Verb.crawl_present from index i (counted from 0) on: the
\* second space-separated piece of list item i becomes a VerbConjugation,
\* scraped from its own page, and is stored under pronoun i of the dict. A
\* missing item, a missing second piece and a failed scrape raise.
RECURSIVE crawl_present_from(_, _, _, _)
crawl_present_from(i, present, conjugations, origin) ==
    IF i >= 6 THEN {PresentOutcome(FALSE, present, <<>>)}
    ELSE IF i >= Len(conjugations) THEN {PresentOutcome(TRUE, present, <<>>)}
    ELSE LET which == _PRESENT_LIST[i + 1]
             pieces == Split(conjugations[i + 1], <<" ">>)
         IN  IF Len(pieces) < 2 THEN {PresentOutcome(TRUE, present, <<>>)}
             ELSE UNION {
                    LET vc == VerbConjugation(which, pieces[2], origin, soup)
                        here == Fetched(pieces[2], soup)
                    IN  IF vc = {} THEN {PresentOutcome(TRUE, present, here)}
                        ELSE {PresentOutcome(o.raised, o.present,
                                             here \o o.fetched) :
                                o \in crawl_present_from(
                                        i + 1, DictSet(present, which, vc),
                                        conjugations, origin)} :
                    soup \in Wiktionary(pieces[2])}

\* Verb.crawl_present on the conjugation page served: a page without the
\* conjugation box raises before the dict is touched.
crawl_present(present, origin, page) ==
    IF page = {} THEN {PresentOutcome(TRUE, present, <<>>)}
    ELSE crawl_present_from(0, present, CHOOSE c \in page : TRUE, origin)

\* Verb.__init__: the outcomes of Verb(spelling) when the module's _PRESENT
\* holds present. self.present is the dict _PRESENT itself, not a copy: the
\* object holds a reference to it. raised tells whether the constructor
\* raised, self is {} then, and present is _PRESENT afterwards; crawled is
\* the conjugation page that was read and fetched the requests made to
\* de.wiktionary.org.
Verb(spelling, present) ==
    UNION {
        LET w == Word(spelling, soup)
        IN  IF w = {}
            THEN {[raised |-> TRUE, self |-> {}, present |-> present,
                   crawled |-> {}, fetched |-> Fetched(spelling, soup)]}
            ELSE UNION {
                    {[raised |-> o.raised,
                      self |-> IF o.raised THEN {}
                               ELSE {[spelling |-> x.spelling,
                                      ipa |-> x.ipa,
                                      syllabification |-> x.syllabification,
                                      logged |-> x.logged,
                                      present |-> "_PRESENT"] : x \in w},
                      present |-> o.present,
                      crawled |-> page,
                      fetched |-> Fetched(spelling, soup) \o o.fetched] :
                        o \in crawl_present(present, spelling, page)} :
                    page \in Reverso(spelling)} :
        soup \in Wiktionary(spelling)}

\* _ADOC_VERB.format(conjugations=..., origin=...)
_ADOC_VERB(conjugations, origin) ==
    <<"=", "=", " ">> \o origin
    \o <<"\n", "\n", "[", "c", "o", "l", "s", "=", "\"", "1", ",", "1",
         ",", "1", "\"", "]", "\n", "|", "=", "=", "=", "\n", "|", "P",
         "e", "r", "s", "o", "n", "a", "l", "p", "r", "o", "n", "o", "m",
         "e", "n", " ", "|", "S", "p", "e", "l", "l", "i", "n", "g", " ",
         "|", "I", "P", "A", "\n", "\n">>
    \o conjugations \o <<"|", "=", "=", "=", "\n">>

\* Verb.to_adoc when the dict self.present refers to holds present: {} when
\* it raises (a pronoun still mapped to None), else {the printout}.
Verb_to_adoc(self, present) ==
    IF \E i \in 1..Len(_PRESENT_LIST) : DictGet(present, _PRESENT_LIST[i]) = {}
    THEN {}
    ELSE LET row(i) ==
                 _info_adoc(CHOOSE c \in DictGet(present, _PRESENT_LIST[i]) : TRUE)
                 \o <<"\n">>
             conjugations == Concat([i \in 1..Len(_PRESENT_LIST) |-> row(i)])
             origin == self.syllabification \o <<" ">> \o self.ipa
         IN  {_ADOC_VERB(conjugations, origin)}

---------------------------------------------------------------------------
(* german/noun.py: DeclensionMethod, Declension and Noun.                  *)

\* The eight members of the enumeration, in the order of their definition.
DeclensionMethod ==
    <<[name |-> "NS", case |-> "N", singular |-> TRUE],
      [name |-> "NP", case |-> "N", singular |-> FALSE],
      [name |-> "GS", case |-> "G", singular |-> TRUE],
      [name |-> "GP", case |-> "G", singular |-> FALSE],
      [name |-> "DS", case |-> "D", singular |-> TRUE],
      [name |-> "DP", case |-> "D", singular |-> FALSE],
      [name |-> "AS", case |-> "A", singular |-> TRUE],
      [name |-> "AP", case |-> "A", singular |-> FALSE]>>

\* Declension.from_method: a Word with its origin, number and case.
Declension(spelling, origin, declension, soup) ==
    {[spelling |-> w.spelling,
      ipa |-> w.ipa,
      syllabification |-> w.syllabification,
      logged |-> w.logged,
      origin |-> origin,
      singular |-> declension.singular,
      case |-> declension.case] : w \in Word(spelling, soup)}

\* An outcome of a scraping step: value is {} when it raised, else {what
\* it produced}; fetched holds the requests it made to de.wiktionary.org,
\* in order.
Scraped(value, fetched) == [value |-> value, fetched |-> fetched]

\* The list of Declension objects of a spelling list, each scraped from its
\* own page.
RECURSIVE declension_lists(_, _, _)
declension_lists(spelling_list, origin, how_declension) ==
    IF spelling_list = <<>> THEN {Scraped({<<>>}, <<>>)}
    ELSE UNION {
            LET d == Declension(Head(spelling_list), origin, how_declension, soup)
                here == Fetched(Head(spelling_list), soup)
            IN  IF d = {} THEN {Scraped({}, here)}
                ELSE {Scraped(IF rest.value = {} THEN {}
                              ELSE {<<CHOOSE x \in d : TRUE>>
                                    \o (CHOOSE r \in rest.value : TRUE)},
                              here \o rest.fetched) :
                        rest \in declension_lists(
                                    Tail(spelling_list), origin, how_declension)} :
            soup \in Wiktionary(Head(spelling_list))}

\* table.find_all("tr")[1:5], and of each row find_all("td")[0:2]: the
\* cells in the order the loops visit them.
TableCells(table) ==
    LET rows == SubSeq(table, 2, IF Len(table) < 5 THEN Len(table) ELSE 5)
    IN  Concat([r \in 1..Len(rows) |->
                   SubSeq(rows[r], 1,
                          IF Len(rows[r]) < 2 THEN Len(rows[r]) ELSE 2)])

\* The spellings of one cell: the pieces of its text after the article, two
\* of them when the cell holds two tags or more, one otherwise; {} when the
\* text has too few pieces (IndexError).
SpellingList(cell, article) ==
    LET pieces == Split(cell.text, article \o <<" ">>)
    IN  IF cell.tags >= 2
        THEN IF Len(pieces) < 3 THEN {}
             ELSE {<<remove_newline(pieces[2]), remove_newline(pieces[3])>>}
        ELSE IF Len(pieces) < 2 THEN {}
             ELSE {<<remove_newline(pieces[2])>>}

\* The tables of a noun: the three dicts of Noun._assign_tables.
NounTables(articles, spellings, declensions) ==
    [articles |-> articles, spellings |-> spellings,
     declensions |-> declensions]

\* The loops of Noun._assign_tables from cell k (counted from 1) on: cell k
\* is stored under the k-th declension method.
RECURSIVE assign_cells(_, _, _, _)
assign_cells(k, cells, tables, origin) ==
    IF k > Len(cells) THEN {Scraped({tables}, <<>>)}
    ELSE LET cell == cells[k]
             article == Split(cell.text, <<" ">>)[1]
             how_declension == DeclensionMethod[k]
             spelling_list == SpellingList(cell, article)
         IN  IF spelling_list = {} THEN {Scraped({}, <<>>)}
             ELSE UNION {
                    IF declension_list.value = {}
                    THEN {Scraped({}, declension_list.fetched)}
                    ELSE {Scraped(rest.value,
                                  declension_list.fetched \o rest.fetched) :
                            rest \in assign_cells(
                                k + 1, cells,
                                NounTables(
                                    DictSet(tables.articles,
                                            how_declension.name, article),
                                    DictSet(tables.spellings,
                                            how_declension.name,
                                            CHOOSE l \in spelling_list : TRUE),
                                    DictSet(tables.declensions,
                                            how_declension.name,
                                            CHOOSE l \in declension_list.value :
                                                TRUE)),
                                origin)} :
                    declension_list \in declension_lists(
                        CHOOSE l \in spelling_list : TRUE, origin,
                        how_declension)}

\* Noun._assign_tables on the page in self.soup: a page without the
\* inflection table raises.
_assign_tables(origin, soup) ==
    IF soup.table = {} THEN {Scraped({}, <<>>)}
    ELSE assign_cells(1, TableCells(CHOOSE t \in soup.table : TRUE),
                      NounTables(<<>>, <<>>, <<>>), origin)

\* str.capitalize() in place of the slices: the first character in upper
\* case and the rest in lower case.
Capitalise_lower_rest(checked) ==
    [i \in 1..Len(Upto(checked, 1)) |-> UpperChar(checked[i])]
    \o Lower(From(checked, 1))

\* checked[:1].upper() + checked[1:]
Capitalise(checked) ==
    [i \in 1..Len(Upto(checked, 1)) |-> UpperChar(checked[i])]
    \o From(checked, 1)

\* Noun.__init__: the outcomes of Noun(checked), value {} for a raise, else
\* {the noun}. The page is fetched twice, for the Word and for the table;
\* the second page is kept in self.soup.
Noun(checked) ==
    LET word == Capitalise(checked)
    IN  UNION {
            LET w == Word(word, soup)
            IN  IF w = {} THEN {Scraped({}, Fetched(word, soup))}
                ELSE UNION {
                        {Scraped(
                            IF t.value = {} THEN {}
                            ELSE {[spelling |-> x.spelling,
                                   ipa |-> x.ipa,
                                   syllabification |-> x.syllabification,
                                   logged |-> x.logged,
                                   gender |-> "N",
                                   articles |-> y.articles,
                                   spellings |-> y.spellings,
                                   declensions |-> y.declensions,
                                   soup |-> soup2] :
                                       x \in w, y \in t.value},
                            Fetched(word, soup) \o Fetched(word, soup2)
                            \o t.fetched) :
                            t \in _assign_tables(word, soup2)} :
                        soup2 \in Wiktionary(word)} :
            soup \in Wiktionary(word)}

\* The spellings nouns are built from, and Noun(checked) for each of them,
\* computed once.
NounSpellings ==
    {w_kind, w_tat, <<"K", "i", "n", "d">>, <<"k", "I", "n", "d">>, <<>>,
     <<"F", "u", "ß", "b", "a", "l", "l">>}

NounOf == [checked \in NounSpellings |-> Noun(checked)]

\* ", ".join(list)
RECURSIVE Join(_)
Join(list) ==
    IF list = <<>> THEN <<>>
    ELSE IF Len(list) = 1 THEN list[1]
    ELSE list[1] \o <<",", " ">> \o Join(Tail(list))

\* _ADOC.format(content=...)
_ADOC(content) ==
    <<"\n", "[", "c", "o", "l", "s", "=", "\"", "1", ",", "1", ",", "1",
      ",", "1", "\"", "]", "\n", "|", "=", "=", "=", "\n", "|", "S", "i",
      "n", "g", "u", "l", "a", "r", " ", "|", "S", "p", "e", "l", "l", "i",
      "n", "g", " ", "|", "S", "i", "n", "g", "u", "l", "a", "r", " ", "|",
      "S", "p", "e", "l", "l", "i", "n", "g", "\n", "\n">>
    \o content \o <<"|", "=", "=", "=", "\n">>

\* Noun.to_adoc: {} when it raises (a declension method missing from the
\* dicts), else {the printout}: four rows of two (article, spellings) pairs.
Noun_to_adoc(self) ==
    IF \E k \in 1..Len(DeclensionMethod) :
          \/ ~HasKey(self.articles, DeclensionMethod[k].name)
          \/ ~HasKey(self.spellings, DeclensionMethod[k].name)
    THEN {}
    ELSE LET pair(k) ==
                 <<"|">> \o DictGet(self.articles, DeclensionMethod[k].name)
                 \o <<" ">> \o <<"|">>
                 \o Join(DictGet(self.spellings, DeclensionMethod[k].name))
                 \o <<" ">>
             row(i) == pair(2 * i + 1) \o pair(2 * i + 2) \o <<"\n">>
         IN  {_ADOC(Concat([i \in 1..4 |-> row(i - 1)]))}

---------------------------------------------------------------------------
(* german/article.py: the article tables, built when the module is         *)
(* imported.                                                               *)

\* The members of article.Gender and article.Case.
ArticleGender == {"M", "F", "N", "X"}
ArticleCase == {"N", "G", "D", "A"}

\* _ARTICLES_DEF with the accusative masculine row keyed as a nominative.
_ARTICLES_DEF_repeated_key ==
    <<<<<<"d", "e", "r">>, TRUE, "M", "N">>, <<<<"d", "i", "e">>, TRUE, "F", "N">>,
      <<<<"d", "a", "s">>, TRUE, "N", "N">>, <<<<"d", "i", "e">>, FALSE, "X", "N">>,
      <<<<"d", "e", "n">>, TRUE, "M", "N">>, <<<<"d", "i", "e">>, TRUE, "F", "A">>,
      <<<<"d", "a", "s">>, TRUE, "N", "A">>, <<<<"d", "i", "e">>, FALSE, "X", "A">>,
      <<<<"d", "e", "s">>, TRUE, "M", "G">>, <<<<"d", "e", "r">>, TRUE, "F", "G">>,
      <<<<"d", "e", "s">>, TRUE, "N", "G">>, <<<<"d", "e", "r">>, FALSE, "X", "G">>,
      <<<<"d", "e", "m">>, TRUE, "M", "D">>, <<<<"d", "e", "r">>, TRUE, "F", "D">>,
      <<<<"d", "e", "m">>, TRUE, "N", "D">>, <<<<"d", "e", "n">>, FALSE, "X", "D">>>>

\* _ARTICLES_DEF: spelling, singular, gender and case of each row.
_ARTICLES_DEF ==
    <<<<<<"d", "e", "r">>, TRUE, "M", "N">>, <<<<"d", "i", "e">>, TRUE, "F", "N">>,
      <<<<"d", "a", "s">>, TRUE, "N", "N">>, <<<<"d", "i", "e">>, FALSE, "X", "N">>,
      <<<<"d", "e", "n">>, TRUE, "M", "A">>, <<<<"d", "i", "e">>, TRUE, "F", "A">>,
      <<<<"d", "a", "s">>, TRUE, "N", "A">>, <<<<"d", "i", "e">>, FALSE, "X", "A">>,
      <<<<"d", "e", "s">>, TRUE, "M", "G">>, <<<<"d", "e", "r">>, TRUE, "F", "G">>,
      <<<<"d", "e", "s">>, TRUE, "N", "G">>, <<<<"d", "e", "r">>, FALSE, "X", "G">>,
      <<<<"d", "e", "m">>, TRUE, "M", "D">>, <<<<"d", "e", "r">>, TRUE, "F", "D">>,
      <<<<"d", "e", "m">>, TRUE, "N", "D">>, <<<<"d", "e", "n">>, FALSE, "X", "D">>>>

\* _ARTICLES_INDEF
_ARTICLES_INDEF ==
    <<<<<<"e", "i", "n">>, TRUE, "M", "N">>, <<<<"e", "i", "n", "e">>, TRUE, "F", "N">>,
      <<<<"e", "i", "n">>, TRUE, "N", "N">>,
      <<<<"e", "i", "n", "e", "n">>, TRUE, "M", "A">>, <<<<"e", "i", "n", "e">>, TRUE, "F", "A">>,
      <<<<"e", "i", "n">>, TRUE, "N", "A">>,
      <<<<"e", "i", "n", "e", "s">>, TRUE, "M", "G">>, <<<<"e", "i", "n", "e", "r">>, TRUE, "F", "G">>,
      <<<<"e", "i", "n", "e", "s">>, TRUE, "N", "G">>,
      <<<<"e", "i", "n", "e", "m">>, TRUE, "M", "D">>, <<<<"e", "i", "n", "e", "r">>, TRUE, "F", "D">>,
      <<<<"e", "i", "n", "e", "m">>, TRUE, "N", "D">>>>

\* article.Declension.__init__ on the page crawl_wiktionary returned: {}
\* when it raises, else {the declension}. origin is {} for None.
ArticleDeclension(spelling, origin, singular, gender, case, soup) ==
    {[spelling |-> w.spelling,
      ipa |-> w.ipa,
      syllabification |-> w.syllabification,
      logged |-> w.logged,
      origin |-> origin,
      singular |-> singular,
      gender |-> gender,
      case |-> case] : w \in Word(spelling, soup)}

\* The key (item[1], item[2], item[3]) of a row.
ArticleKey(item) == <<item[2], item[3], item[4]>>

\* One turn of the dict comprehension: the entry of item is stored in the
\* dict d under its key. {} when the scrape raises, else {the dict}.
ArticleAdded(d, item, soup) ==
    {DictSet(d, ArticleKey(item), a) :
        a \in ArticleDeclension(item[1], {}, item[2], item[3], item[4], soup)}

---------------------------------------------------------------------------
(* german/search.py: search_word_de.                                       *)

\* The answers api.pons.com may give to a request for a word, one per
\* request: an entry of the word, no content, or the request limit.
Pons(word) ==
    LET ok(wc) == [status_code |-> 200, body |-> BodyOf(JStr(wc))]
        none == [status_code |-> 204, body |-> NotJson]
        limit == [status_code |-> 503, body |-> NotJson]
    IN  CASE word = w_gehen -> {ok(wc_verb), limit}
          [] word = w_sehen -> {ok(wc_transitive_verb)}
          [] word = w_kind -> {ok(wc_noun), limit}
          [] word = w_gut -> {ok(wc_adjective_or_adverb)}
          [] word = w_tat -> {ok(wc_feminine_noun), [status_code |-> 200, body |-> JArr(<<>>)]}
          [] OTHER -> {none}

\* An outcome of search_word_de: the corrected word, the outcomes of the
\* crawl_pos_de calls in order, the class whose constructor was called
\* ("none" when neither), whether the call raised, the value returned ({}
\* for None, and when it raised), _PRESENT afterwards and the requests made
\* to de.wiktionary.org.
SearchOutcome(word, requests, class, raised, returned, present, fetched) ==
    [word |-> word, requests |-> requests, class |-> class,
     raised |-> raised, returned |-> returned, present |-> present,
     fetched |-> fetched]

\* Noun(word).to_adoc()
search_noun(word, requests, present) ==
    {IF n.value = {}
     THEN SearchOutcome(word, requests, "Noun", TRUE, {}, present, n.fetched)
     ELSE LET out == Noun_to_adoc(CHOOSE x \in n.value : TRUE)
          IN  SearchOutcome(word, requests, "Noun", out = {}, out, present,
                            n.fetched) :
        n \in NounOf[word]}

\* Verb(word).to_adoc()
search_verb(word, requests, present) ==
    {IF v.raised
     THEN SearchOutcome(word, requests, "Verb", TRUE, {}, v.present,
                        v.fetched)
     ELSE LET out == Verb_to_adoc(CHOOSE x \in v.self : TRUE, v.present)
          IN  SearchOutcome(word, requests, "Verb", out = {}, out, v.present,
                            v.fetched) :
        v \in Verb(word, present)}

\* The elif and else branches of search_word_de, taken when the first
\* crawl_pos_de did not return Noun: crawl_pos_de is called again.
search_not_noun(word, first, present) ==
    UNION {
        LET second == crawl_pos_de(word, crawled)
            requests == <<first, second>>
        IN  IF second.raised
            THEN {SearchOutcome(word, requests, "none", TRUE, {}, present,
                                <<>>)}
            ELSE IF second.pos = "Verb"
            THEN search_verb(word, requests, present)
            ELSE {SearchOutcome(word, requests, "none", FALSE, {}, present,
                                <<>>)} :
        crawled \in Pons(word)}

\* search_word_de: the outcomes of search_word_de(spelling) when the
\* module's _PRESENT holds present.
search_word_de(spelling, present) ==
    LET word == check_de(spelling)
    IN  UNION {
            LET first == crawl_pos_de(word, crawled)
            IN  IF first.raised
                THEN {SearchOutcome(word, <<first>>, "none", TRUE, {}, present,
                                    <<>>)}
                ELSE IF first.pos = "Noun"
                THEN search_noun(word, <<first>>, present)
                ELSE search_not_noun(word, first, present) :
            crawled \in Pons(word)}

---------------------------------------------------------------------------
(* The parts of the state a specification leaves alone.                    *)

CheckIdle ==
    /\ arg = <<>>
    /\ res = {}
    /\ resLower = {}
    /\ resAgain = {}

PosIdle ==
    /\ posWord = <<>>
    /\ posResp = [status_code |-> 204, body |-> NotJson]
    /\ posRes = {}

MainIdle ==
    /\ PRESENT = _PRESENT
    /\ verbs = <<>>
    /\ served = <<>>
    /\ nouns = <<>>
    /\ printed = <<>>
    /\ call = [op |-> "none"]

WordIdle == wordCall = [op |-> "none"]

ArticleIdle ==
    /\ artDef = <<>>
    /\ artIndef = <<>>
    /\ artCall = [op |-> "none"]

---------------------------------------------------------------------------
(* SpecCheck: check_de applied to a spelling, to that spelling in lower    *)
(* case, and to its own result.                                            *)

\* The spellings of tests/cmdict/test_check.py that fit the alphabet.
TestSpellings ==
    {<<"D", "a", "n", "k">>, <<"D", "a", "n", "t">>, <<"d", "a", "n", "k">>}

Spellings == StringsUpTo(MaxLen) \cup TestSpellings

InitCheck ==
    /\ arg \in Spellings
    /\ res = {}
    /\ resLower = {}
    /\ resAgain = {}
    /\ PosIdle
    /\ MainIdle
    /\ WordIdle
    /\ ArticleIdle

\* checked = check_de(arg)
CheckArg ==
    /\ res = {}
    /\ res' = {check_de(arg)}
    /\ UNCHANGED <<arg, resLower, resAgain, posVars, mainVars,
                 wordVars, articleVars>>

\* check_de(arg.lower())
CheckLowered ==
    /\ resLower = {}
    /\ resLower' = {check_de(Lower(arg))}
    /\ UNCHANGED <<arg, res, resAgain, posVars, mainVars,
                 wordVars, articleVars>>

\* check_de(checked)
CheckAgain ==
    /\ res # {}
    /\ resAgain = {}
    /\ resAgain' = {check_de(r) : r \in res}
    /\ UNCHANGED <<arg, res, resLower, posVars, mainVars,
                 wordVars, articleVars>>

NextCheck == CheckArg \/ CheckLowered \/ CheckAgain

SpecCheck == InitCheck /\ [][NextCheck]_vars

---------------------------------------------------------------------------
(* SpecPos: crawl_pos_de called with any word on any response.            *)

InitPos ==
    /\ CheckIdle
    /\ PosIdle
    /\ MainIdle
    /\ WordIdle
    /\ ArticleIdle

\* pos = crawl_pos_de(word, secret), the API answering with crawled.
CrawlPosDe(word, crawled) ==
    /\ posWord' = word
    /\ posResp' = crawled
    /\ posRes' = {crawl_pos_de(word, crawled)}
    /\ UNCHANGED <<checkVars, mainVars, wordVars, articleVars>>

NextPos ==
    \E word \in PosWords, response \in Responses : CrawlPosDe(word, response)

SpecPos == InitPos /\ [][NextPos]_vars
---------------------------------------------------------------------------
(* SpecWord: Word(spelling) called with any spelling on any page.          *)

\* The spellings Word is built from, and the pages the site may answer
\* with: the page of any of them, as it is or with the IPA span, the
\* syllabification paragraph or its text missing.
WordSpellings ==
    {<<"g", "e", "h", "e", "n">>, <<"g", "e", "h", "e">>,
     <<"g", "e", "h", "s", "t">>, <<"s", "e", "h", "e", "n">>,
     <<"K", "i", "n", "d">>, <<"K", "i", "n", "d", "e", "r">>}

WordPages ==
    UNION {{PageOf(w), WithoutIpa(PageOf(w)), WithoutWorttrennung(PageOf(w)),
            WithEmptyWorttrennung(PageOf(w)),
            WithoutIpa(WithoutWorttrennung(PageOf(w)))} : w \in WordSpellings}

InitWord ==
    /\ CheckIdle
    /\ PosIdle
    /\ MainIdle
    /\ WordIdle
    /\ ArticleIdle

\* Word(spelling), the site answering with soup.
NewWord(spelling, soup) ==
    /\ LET w == Word(spelling, soup)
       IN  wordCall' = [op |-> "Word", spelling |-> spelling, soup |-> soup,
                        raised |-> w = {}, self |-> w]
    /\ UNCHANGED <<checkVars, posVars, mainVars, articleVars>>

NextWord ==
    \E spelling \in WordSpellings, soup \in WordPages : NewWord(spelling, soup)

SpecWord == InitWord /\ [][NextWord]_vars

---------------------------------------------------------------------------
(* SpecArticle: the import of german/article.py, which builds the two      *)
(* article tables row by row, and lookups in the tables once built.        *)

\* The keys a lookup may ask for.
ArticleKeys == {TRUE, FALSE} \X ArticleGender \X ArticleCase

InitArticle ==
    /\ CheckIdle
    /\ PosIdle
    /\ MainIdle
    /\ WordIdle
    /\ ArticleIdle

\* The rows of both tables the import has gone through.
ArticleStep == IF artCall.op = "import" THEN artCall.step ELSE 0

\* Both dict comprehensions have completed.
ArticlesImported ==
    \/ artCall.op = "lookup"
    \/ /\ artCall.op = "import"
       /\ ~artCall.raised
       /\ artCall.step = Len(_ARTICLES_DEF) + Len(_ARTICLES_INDEF)

\* The next turn of the comprehension of ARTICLES_DEF.
ImportDef ==
    /\ artCall.op \in {"none", "import"}
    /\ artCall.op = "import" => ~artCall.raised
    /\ ArticleStep < Len(_ARTICLES_DEF)
    /\ LET item == _ARTICLES_DEF[ArticleStep + 1]
       IN  \E soup \in Wiktionary(item[1]) :
              LET d == ArticleAdded(artDef, item, soup)
              IN  /\ artDef' = IF d = {} THEN artDef ELSE CHOOSE x \in d : TRUE
                  /\ artCall' = [op |-> "import", step |-> ArticleStep + 1,
                                 raised |-> d = {}]
    /\ UNCHANGED <<artIndef, checkVars, posVars, mainVars, wordVars>>

\* The next turn of the comprehension of ARTICLES_INDEF.
ImportIndef ==
    /\ artCall.op = "import"
    /\ ~artCall.raised
    /\ ArticleStep >= Len(_ARTICLES_DEF)
    /\ ArticleStep < Len(_ARTICLES_DEF) + Len(_ARTICLES_INDEF)
    /\ LET item == _ARTICLES_INDEF[ArticleStep + 1 - Len(_ARTICLES_DEF)]
       IN  \E soup \in Wiktionary(item[1]) :
              LET d == ArticleAdded(artIndef, item, soup)
              IN  /\ artIndef' = IF d = {} THEN artIndef
                                 ELSE CHOOSE x \in d : TRUE
                  /\ artCall' = [op |-> "import", step |-> ArticleStep + 1,
                                 raised |-> d = {}]
    /\ UNCHANGED <<artDef, checkVars, posVars, mainVars, wordVars>>

\* ARTICLES_DEF[key] or ARTICLES_INDEF[key]: found tells whether the key is
\* there (else KeyError), spelling holds the spelling of the article.
LookupArticle(definite, key) ==
    /\ ArticlesImported
    /\ LET d == IF definite THEN artDef ELSE artIndef
       IN  artCall' = [op |-> "lookup", definite |-> definite, key |-> key,
                       found |-> HasKey(d, key),
                       spelling |-> IF HasKey(d, key)
                                    THEN {DictGet(d, key).spelling}
                                    ELSE {}]
    /\ UNCHANGED <<artDef, artIndef, checkVars, posVars, mainVars, wordVars>>

NextArticle ==
    \/ ImportDef
    \/ ImportIndef
    \/ \E definite \in BOOLEAN, key \in ArticleKeys :
          LookupArticle(definite, key)

SpecArticle == InitArticle /\ [][NextArticle]_vars

---------------------------------------------------------------------------
(* Spec: a Python session that builds verbs and nouns, prints them and     *)
(* searches words, one call after the other.                               *)

\* The spellings the session builds verbs and nouns from and searches.
VerbSpellings == {<<"g", "e", "h", "e", "n">>, <<"s", "e", "h", "e", "n">>}
SearchSpellings ==
    {<<"g", "e", "h", "e", "n">>, <<"s", "e", "h", "e", "n">>, <<"g", "e", "h", "n">>,
     <<"K", "i", "n", "d">>, <<"g", "u", "t">>, <<"t", "a", "t">>}

Init ==
    /\ CheckIdle
    /\ PosIdle
    /\ MainIdle
    /\ WordIdle
    /\ ArticleIdle

\* The dict a Verb's attribute present refers to.
Deref(ref) == IF ref = "_PRESENT" THEN PRESENT ELSE _PRESENT

\* Verb(spelling); the session keeps the object when the constructor
\* returns and it holds fewer than MaxVerbs, and drops it otherwise.
NewVerb(spelling) ==
    /\ \E o \in Verb(spelling, PRESENT) :
        /\ PRESENT' = o.present
        /\ IF o.raised \/ Len(verbs) >= MaxVerbs
           THEN UNCHANGED <<verbs, served, printed>>
           ELSE /\ verbs' = Append(verbs, CHOOSE x \in o.self : TRUE)
                /\ served' = Append(served, CHOOSE c \in o.crawled : TRUE)
                /\ printed' = Append(printed, {})
        /\ call' = [op |-> "Verb", spelling |-> spelling, raised |-> o.raised,
                    fetched |-> o.fetched]
    /\ UNCHANGED <<nouns, checkVars, posVars, wordVars, articleVars>>

\* n = Noun(checked); the session keeps n when the constructor returns.
NewNoun(checked) ==
    /\ Len(nouns) < MaxNouns
    /\ \E o \in NounOf[checked] :
        /\ nouns' = IF o.value = {} THEN nouns
                    ELSE Append(nouns, CHOOSE x \in o.value : TRUE)
        /\ call' = [op |-> "Noun", spelling |-> checked,
                    raised |-> o.value = {}, fetched |-> o.fetched]
    /\ UNCHANGED <<PRESENT, verbs, served, printed, checkVars, posVars,
                 wordVars, articleVars>>

\* verbs[i].to_adoc(); printed keeps the first printout of each verb.
VerbToAdoc(i) ==
    /\ i \in 1..Len(verbs)
    /\ LET out == Verb_to_adoc(verbs[i], Deref(verbs[i].present))
       IN  /\ call' = [op |-> "Verb.to_adoc", index |-> i,
                       raised |-> out = {}, returned |-> out]
           /\ printed' = IF printed[i] = {} THEN [printed EXCEPT ![i] = out]
                         ELSE printed
    /\ UNCHANGED <<PRESENT, verbs, served, nouns, checkVars, posVars,
                 wordVars, articleVars>>

\* nouns[i].to_adoc()
NounToAdoc(i) ==
    /\ i \in 1..Len(nouns)
    /\ LET out == Noun_to_adoc(nouns[i])
       IN  call' = [op |-> "Noun.to_adoc", index |-> i,
                    raised |-> out = {}, returned |-> out]
    /\ UNCHANGED <<PRESENT, verbs, served, nouns, printed, checkVars, posVars,
                 wordVars, articleVars>>

\* search_word_de(spelling)
SearchWordDe(spelling) ==
    /\ \E o \in search_word_de(spelling, PRESENT) :
        /\ PRESENT' = o.present
        /\ call' = [op |-> "search_word_de", spelling |-> spelling,
                    word |-> o.word, requests |-> o.requests,
                    class |-> o.class, raised |-> o.raised,
                    returned |-> o.returned, fetched |-> o.fetched]
    /\ UNCHANGED <<verbs, served, nouns, printed, checkVars, posVars,
                 wordVars, articleVars>>

Next ==
    \/ \E spelling \in VerbSpellings : NewVerb(spelling)
    \/ \E i \in 1..MaxVerbs : VerbToAdoc(i)
    \/ \E spelling \in SearchSpellings : SearchWordDe(spelling)

Spec == Init /\ [][Next]_vars

---------------------------------------------------------------------------
(* SpecNoun: a session that builds nouns and prints them.                  *)

NextNoun ==
    \/ \E checked \in NounSpellings : NewNoun(checked)
    \/ \E i \in 1..MaxNouns : NounToAdoc(i)

SpecNoun == Init /\ [][NextNoun]_vars


---------------------------------------------------------------------------
(* Claims about search_word_de and Verb, checked under Spec.               *)

\* C1: search_word_de corrects the spelling and then builds and renders the
\* Noun when the part of speech resolved for the corrected word is Noun,
\* builds and renders the Verb when it is Verb, and returns None without
\* building a Noun or a Verb in every other case.
C1_BranchOnResolvedPos ==
    call.op = "search_word_de" =>
        LET resolved == call.requests[1]
        IN  /\ call.word = check_de(call.spelling)
            /\ ~resolved.raised =>
                /\ resolved.pos = "Noun" => call.class = "Noun"
                /\ resolved.pos = "Verb" => call.class = "Verb"
                /\ resolved.pos = "None" =>
                    /\ call.class = "none"
                    /\ ~call.raised
                    /\ call.returned = {}

\* C2: each search_word_de call sends exactly one request to the
\* part-of-speech API and branches on its result; none follows a resolution
\* that failed or was not Noun.
C2_OneRequestPerSearch ==
    call.op = "search_word_de" => Len(call.requests) = 1

\* C3: no step (building another Verb, completely or failing partway, or a
\* search_word_de call) changes the present-tense map of a Verb built
\* before.
C3_PresentUnchanged ==
    [][\A i \in 1..Len(verbs) :
          Deref(verbs[i].present)' = Deref(verbs[i].present)]_vars

\* C4: a to_adoc call on a built Verb returns the string its first to_adoc
\* call returned, whatever was built, searched or rendered in between.
C4_SameRendering ==
    (call.op = "Verb.to_adoc" /\ ~call.raised) =>
        \/ printed[call.index] = {}
        \/ call.returned = printed[call.index]

\* C6: every Verb built holds the six pronoun slots ich, du, er, wir, ihr,
\* sie in that order, none of them None, each built from the second
\* space-separated piece of the corresponding list item of the conjugation
\* page it read and with a non-empty syllabification.
C6_SixPopulatedSlots ==
    \A i \in 1..Len(verbs) :
        LET present == Deref(verbs[i].present)
        IN  /\ DictKeys(present) = _PRESENT_LIST
            /\ \A k \in 1..Len(_PRESENT_LIST) :
                LET slot == DictGet(present, _PRESENT_LIST[k])
                IN  /\ slot # {}
                    /\ \A c \in slot :
                        /\ c.spelling = Split(served[i][k], <<" ">>)[2]
                        /\ c.syllabification # <<>>

---------------------------------------------------------------------------
(* Claims about Noun construction, checked under SpecNoun.                 *)

\* C19: Noun(checked) looks up, and a built Noun stores, the checked
\* spelling with its first character in upper case and every other
\* character unchanged; capitalising the result again changes nothing and
\* the empty spelling stays empty.
C19_CapitalisedFirstOnly ==
    call.op = "Noun" =>
        LET word == call.fetched[1].word
        IN  /\ Len(call.fetched) >= 1
            /\ Len(word) = Len(call.spelling)
            /\ \A i \in 1..Len(word) :
                   word[i] = IF i = 1 THEN UpperChar(call.spelling[i])
                             ELSE call.spelling[i]
            /\ Capitalise(word) = word
            /\ ~call.raised =>
                   /\ Len(call.fetched) >= 2
                   /\ call.fetched[2].word = word
                   /\ nouns[Len(nouns)].spelling = word

\* A noun spelled "Kind" has been built, and Noun("kInd") then looked up
\* "KInd".
C19_Witness ==
    /\ Len(nouns) >= 1
    /\ nouns[1].spelling = <<"K", "i", "n", "d">>
    /\ call.op = "Noun"
    /\ call.spelling = <<"k", "I", "n", "d">>
    /\ call.fetched[1].word = <<"K", "I", "n", "d">>

\* The lines of a table cell, one per word form: its text split at "\n",
\* without the empty piece after the last line.
CellLines(cell) == SelectSeq(Split(cell.text, <<"\n">>), LAMBDA l : l # <<>>)

\* The article of a cell: its text up to the first space.
CellArticle(cell) == Split(cell.text, <<" ">>)[1]

\* The spellings of a cell: of each line the text after the first space.
CellSpellings(cell) ==
    LET lines == CellLines(cell)
    IN  [j \in 1..Len(lines) |-> From(lines[j], Find(lines[j], <<" ">>))]

\* The inflection table a built noun was parsed from.
TableOf(noun) == CHOOSE t \in noun.soup.table : TRUE

\* C14: every built Noun was parsed from a table none of whose cells holds
\* three spellings or more, and the spelling list of each slot holds all
\* the spellings of its cell, in order.
C14_NoSpellingDropped ==
    \A i \in 1..Len(nouns) :
        LET cells == TableCells(TableOf(nouns[i]))
        IN  \A k \in 1..Len(cells) :
                /\ Len(CellSpellings(cells[k])) <= 2
                /\ HasKey(nouns[i].spellings, DeclensionMethod[k].name) =>
                       DictGet(nouns[i].spellings, DeclensionMethod[k].name)
                           = CellSpellings(cells[k])

\* C15: in every built Noun, whatever is stored under the slot of case c
\* and number n comes from the cell of the table in the row of case c
\* (rows 1-4 after the header = N, G, D, A), the left one for the singular
\* and the right one for the plural: the article is that cell's article
\* and the spellings are among that cell's spellings.
C15_SlotsFollowTable ==
    \A i \in 1..Len(nouns) :
        LET table == TableOf(nouns[i])
        IN  \A r \in 1..4, c \in 1..2 :
                LET name == DeclensionMethod[2 * (r - 1) + c].name
                IN  HasKey(nouns[i].articles, name) =>
                        /\ r + 1 <= Len(table)
                        /\ c <= Len(table[r + 1])
                        /\ DictGet(nouns[i].articles, name)
                               = CellArticle(table[r + 1][c])
                        /\ HasKey(nouns[i].spellings, name)
                        /\ \A j \in 1..Len(DictGet(nouns[i].spellings, name)) :
                               InList(DictGet(nouns[i].spellings, name)[j],
                                      CellSpellings(table[r + 1][c]))

\* The grammatical gender a noun's page gives: that of the definite article
\* in the nominative singular cell of its inflection table.
PageGender(soup) ==
    LET article == CellArticle((CHOOSE t \in soup.table : TRUE)[2][1])
    IN  CASE article = <<"d", "e", "r">> -> "M"
          [] article = <<"d", "i", "e">> -> "F"
          [] article = <<"d", "a", "s">> -> "N"
          [] OTHER -> "X"

\* C11: every built Noun has the gender its page gives, and an article_def
\* that is the row of ARTICLES_DEF keyed (singular, that gender,
\* nominative), spelled "der", "die" or "das" accordingly.
C11_GenderAndArticle ==
    \A i \in 1..Len(nouns) :
        CellArticle(TableOf(nouns[i])[2][1])
            \in {<<"d", "e", "r">>, <<"d", "i", "e">>, <<"d", "a", "s">>} =>
            /\ nouns[i].gender = PageGender(nouns[i].soup)
            /\ "article_def" \in DOMAIN nouns[i]
            /\ \E k \in 1..Len(_ARTICLES_DEF) :
                /\ ArticleKey(_ARTICLES_DEF[k])
                       = <<TRUE, nouns[i].gender, "N">>
                /\ nouns[i].article_def.spelling = _ARTICLES_DEF[k][1]
                /\ nouns[i].article_def.spelling
                       = CellArticle(TableOf(nouns[i])[2][1])

---------------------------------------------------------------------------
(* Claims about scraping failures, checked under Spec.                     *)

\* C13: a Verb(spelling) or search_word_de(spelling) call in which a wiki
\* page was served without the syllabification marker paragraph (the page
\* of the word itself, of one of the six conjugations of a verb or of a
\* declension of a noun) raises: that request is the last one of the call
\* (no retry), no Verb is produced, and search_word_de returns nothing, not
\* even None.
C13_MarkerAbsentRaises ==
    [][IF call'.op \in {"Verb", "search_word_de"}
       THEN \A k \in 1..Len(call'.fetched) :
                call'.fetched[k].worttrennung = {} =>
                    /\ call'.raised
                    /\ k = Len(call'.fetched)
                    /\ verbs' = verbs
                    /\ call'.op = "search_word_de" => call'.returned = {}
       ELSE TRUE]_vars

\* search_word_de("Kind") built a Noun, the page of the declension "Kinde"
\* was served without the marker paragraph, and the call raised.
C13_Witness ==
    /\ call.op = "search_word_de"
    /\ call.class = "Noun"
    /\ call.raised
    /\ Len(call.fetched) > 2
    /\ call.fetched[Len(call.fetched)].word = <<"K", "i", "n", "d", "e">>
    /\ call.fetched[Len(call.fetched)].worttrennung = {}

---------------------------------------------------------------------------
(* Claims about Verb.to_adoc, checked under Spec.                          *)

\* The display labels of the six pronoun slots, in the order of the rows.
PronounLabels ==
    <<<<"i", "c", "h">>, <<"d", "u">>, <<"e", "r", "/", "s", "i", "e", "/", "e", "s">>, <<"w", "i", "r">>, <<"i", "h", "r">>, <<"S", "i", "e">>>>

\* C17: the string Verb.to_adoc returns has, as its first line, "== "
\* followed by the verb's own syllabified and phonetic form, and as its
\* seventh to twelfth line one table row per pronoun slot in the order ich,
\* du, er, wir, ihr, sie: the display label, the syllabified form and the
\* phonetic form of the conjugation in that slot, each after a "|" and
\* before a space; the line "|===" closes the table.
C17_RowsPerPronoun ==
    (call.op = "Verb.to_adoc" /\ ~call.raised) =>
        \A out \in call.returned :
            LET lines == Split(out, <<"\n">>)
                self == verbs[call.index]
                present == Deref(self.present)
            IN  /\ Len(lines) = 14
                /\ lines[1] = <<"=", "=", " ">> \o self.syllabification
                                \o <<" ">> \o self.ipa
                /\ lines[13] = <<"|", "=", "=", "=">>
                /\ lines[14] = <<>>
                /\ \A k \in 1..6 :
                    \A c \in present[k].value :
                        /\ present[k].key = _PRESENT_LIST[k]
                        /\ lines[6 + k] =
                               <<"|">> \o PronounLabels[k] \o <<" ">>
                               \o <<"|">> \o c.syllabification \o <<" ">>
                               \o <<"|">> \o c.ipa \o <<" ">>

\* The Verb "sehen" was rendered while its slots hold its own forms: the
\* third row reads "|er/sie/es |sieht |['sieht] ".
C17_Witness ==
    /\ call.op = "Verb.to_adoc"
    /\ ~call.raised
    /\ verbs[call.index].spelling = <<"s", "e", "h", "e", "n">>
    /\ \E out \in call.returned :
        Split(out, <<"\n">>)[9] = <<"|", "e", "r", "/", "s", "i", "e", "/", "e", "s", " ", "|", "s", "i", "e", "h", "t", " ", "|", "[", "'", "s", "i", "e", "h", "t", "]", " ">>

---------------------------------------------------------------------------
(* Claims about Noun, checked under SpecNoun.                              *)

\* C5: every Noun built holds exactly the eight declension slots NS, NP,
\* GS, GP, DS, DP, AS, AP in that order in its articles and in its
\* spellings, each with a non-empty article and a non-empty spelling list.
C5_EightSlots ==
    \A i \in 1..Len(nouns) :
        LET names == [k \in 1..Len(DeclensionMethod) |-> DeclensionMethod[k].name]
        IN  /\ DictKeys(nouns[i].articles) = names
            /\ DictKeys(nouns[i].spellings) = names
            /\ \A k \in 1..Len(nouns[i].articles) :
                nouns[i].articles[k].value # <<>>
            /\ \A k \in 1..Len(nouns[i].spellings) :
                nouns[i].spellings[k].value # <<>>

---------------------------------------------------------------------------
(* Claims about Word, checked under SpecWord.                              *)

\* raw is the part of text before its first comma (all of it when it has
\* none).
BeforeFirstComma(raw, text) ==
    /\ Len(raw) <= Len(text)
    /\ \A i \in 1..Len(raw) : raw[i] = text[i] /\ raw[i] # ","
    /\ Len(raw) = Len(text) \/ text[Len(raw) + 1] = ","

\* What C12 says of a Word built from a page without phonetic span: the
\* failure was logged at critical level, ipa is "" and the syllabified form
\* of the page is stored.
BuiltWithoutIpa ==
    /\ ~wordCall.raised
    /\ \A w \in wordCall.self :
        /\ w.ipa = <<>>
        /\ "critical" \in w.logged
        /\ \A text \in wordCall.soup.worttrennung :
            BeforeFirstComma(w.syllabification, text)

C18_SyllabificationStored ==
    (wordCall.op = "Word" /\ wordCall.soup.worttrennung # {}) =>
        /\ ~wordCall.raised
        /\ \A w \in wordCall.self, text \in wordCall.soup.worttrennung :
            /\ BeforeFirstComma(w.syllabification, text)
            /\ "warning" \in w.logged <=>
                SelectSeq(w.syllabification, LAMBDA c : c # "·")
                    # wordCall.spelling

\* Word("gehe") was built from the page of "gehen": "ge·hen" is stored and
\* a warning is logged.
C18_Witness ==
    /\ wordCall.op = "Word"
    /\ wordCall.spelling = <<"g", "e", "h", "e">>
    /\ wordCall.soup = PageOf(<<"g", "e", "h", "e", "n">>)
    /\ \E w \in wordCall.self :
        /\ w.syllabification = <<"g", "e", "·", "h", "e", "n">>
        /\ "warning" \in w.logged

---------------------------------------------------------------------------
(* Claims about the article tables, checked under SpecArticle.             *)

---------------------------------------------------------------------------
(* Claims about crawl_pos_de, checked under SpecPos.                       *)

\* tok is one of the space-separated tags of s: it occurs in s between two
\* spaces or ends of s.
HasToken(s, tok) ==
    \E i \in 1..(Len(s) + 1 - Len(tok)) :
        /\ \A k \in 1..Len(tok) : s[i + k - 1] = tok[k]
        /\ \A k \in 1..Len(tok) : tok[k] # " "
        /\ i = 1 \/ s[i - 1] = " "
        /\ i + Len(tok) - 1 = Len(s) \/ s[i + Len(tok)] = " "

\* C7: crawl_pos_de returns one of Verb, Noun, None for every response and
\* never raises, also on a 200 response whose body is empty, is no array or
\* lacks hits, roms or wordclass.
C7_NeverRaises ==
    \A o \in posRes : ~o.raised /\ o.pos \in {"Verb", "Noun", "None"}

\* C8: the result of crawl_pos_de depends on the response alone. On status
\* 200 with a wordclass string it is Verb if "verb" is one of its
\* space-separated tags (also next to "noun"), else Noun if "noun" is one,
\* else None; on any other status it is None.
C8_ResultFromResponse ==
    \A o \in posRes :
        /\ posResp.status_code # 200 => ~o.raised /\ o.pos = "None"
        /\ \A wc \in WordClasses :
            (posResp.status_code = 200 /\ posResp.body = BodyOf(JStr(wc))) =>
                /\ ~o.raised
                /\ o.pos = IF HasToken(wc, PartOfSpeechDe.Verb) THEN "Verb"
                           ELSE IF HasToken(wc, PartOfSpeechDe.Noun) THEN "Noun"
                           ELSE "None"

\* A 200 response tagged "noun verb" was resolved to Verb.
C8_Witness ==
    /\ posResp = [status_code |-> 200, body |-> BodyOf(JStr(wc_noun_verb))]
    /\ posRes = {Returned("Verb", "none")}

---------------------------------------------------------------------------
(* Claims about check_de, checked under SpecCheck.                         *)

\* C9 as stated: for every input present in the spelling dictionary (the
\* checker knows words whatever their case), check_de returns the input
\* unchanged, capitalisation included.
C9_UnchangedWithCase ==
    \A r \in res : Known({arg}) # {} => r = arg

\* C9 as amended: for every input that is an entry of the spelling
\* dictionary as it stands, all in lower case, check_de returns the input
\* unchanged.
C9_UnchangedLowerCase ==
    \A r \in res : arg \in Dictionary => r = arg

\* check_de("dank") returned "dank".
C9_Witness == arg = w_dank /\ res = {w_dank}

\* C10: check_de(w) equals check_de(lower(w)); when lower(w) is a dictionary
\* word the result is exactly lower(w); and check_de of the result is the
\* result again.
C10_CaseInsensitiveIdempotent ==
    /\ (res # {} /\ resLower # {}) => res = resLower
    /\ \A r \in res : Lower(arg) \in Dictionary => r = Lower(arg)
    /\ resAgain # {} => resAgain = res

\* check_de("Dant"), check_de("dant") and check_de(check_de("Dant")) have
\* all returned "dann".
C10_Witness ==
    /\ arg = <<"D", "a", "n", "t">>
    /\ res = {w_dann}
    /\ resLower = {w_dann}
    /\ resAgain = {w_dann}

=============================================================================
